---- MODULE Spec2Model ----
(***************************************************************************)
(* Model of compress_images.py (optimize_image_for_ppt and                 *)
(* batch_compress_for_ppt) and of create_ppt.py                            *)
(* (create_ppt_from_compressed_images).                                    *)
(*                                                                         *)
(* File names are sequences of one-character strings.  Sizes are bytes.    *)
(* The JPEG encoder is an external collaborator: the encoded size of the   *)
(* decoded image at each quality is an input (the table "sizes"), fixed    *)
(* when the image is decoded, and the encoder is deterministic.            *)
(* Python floats are modelled by integers: a byte budget b is compared     *)
(* with integer file sizes only, so b is kept as floor(b).                 *)
(***************************************************************************)
EXTENDS Integers, Sequences, FiniteSets, TLC

VARIABLES
  \* ---- optimize_image_for_ppt ----
  pc,             \* position inside optimize_image_for_ppt
  image_path,     \* argument image_path
  output_path,    \* argument output_path (after the default of line 60-62)
  target_size_mb, \* argument target_size_mb, held as the bytes it denotes
  target_size,    \* line 103, bytes
  sizes,          \* encoded size of img at each quality (the encoder)
  original_size,  \* line 67
  low_quality, high_quality, best_quality, mid_quality,
  file_size,      \* line 111
  attempt,        \* number of completed iterations of "for _ in range(10)"
  result,         \* the value returned by optimize_image_for_ppt
  raised,         \* the external call that raised inside the try, or "none"
  disk,           \* the files that exist in the output directory
  trials,         \* history: the qualities of the trial encodes, in order
  final_encodes,  \* history: number of executions of line 123
  \* ---- batch_compress_for_ppt / create_ppt ----
  bpc,            \* position inside batch_compress_for_ppt
  glob_files,     \* glob.glob(input_pattern), in enumeration order
  image_files,    \* the list after image_files.sort
  target_ppt_size_mb,
  target_size_per_image, \* line 173, held as the bytes it denotes
  idx,            \* index of the loop "for image_file in image_files"
  results, total_original_size, total_compressed_size,
  attempted,      \* history: paths handed to optimize_image_for_ppt
  returned,       \* history: what each call of optimize_image_for_ppt returned
  slides          \* create_ppt: the picture of each slide, in order

svars == <<pc, image_path, output_path, target_size_mb, target_size, sizes,
           original_size, low_quality, high_quality, best_quality, mid_quality,
           file_size, attempt, result, raised, disk, trials, final_encodes>>
bvars == <<bpc, glob_files, image_files, target_ppt_size_mb,
           target_size_per_image, idx, results, total_original_size,
           total_compressed_size, attempted, returned, slides>>
vars == <<svars, bvars>>

(***************************************************************************)
(* Bounds of the model.                                                    *)
(***************************************************************************)
MaxSizeMB == 2      \* encoded sizes range over 1..MaxSizeMB megabytes
MaxMiddleWidth == 4 \* width of the middle piece of a size table
MaxBudgetMB == 2    \* target_size_mb of a direct call ranges over -1..MaxBudgetMB
MaxFiles == 2       \* number of files matched by the pattern
MaxTargetMB == 3    \* target_ppt_size_mb ranges over 0..MaxTargetMB

(***************************************************************************)
(* Program constants.                                                      *)
(***************************************************************************)
MB == 1024 * 1024
MinQuality == 30
MaxQuality == 95
DefaultQuality == 85
MaxAttempts == 10
ReservedMB == 2

QualityRange == MinQuality..MaxQuality
EncoderQualities == 0..100   \* the qualities the JPEG encoder accepts
None == [ok |-> FALSE]

(***************************************************************************)
(* The encoder: tables of encoded sizes, piecewise constant with at most   *)
(* three pieces, monotone or not: v1 below quality b1, v2 on the next w    *)
(* qualities, v3 above.                                                    *)
(***************************************************************************)
SizeTable(b1, b2, v1, v2, v3) ==
  [q \in EncoderQualities |->
     MB * (IF q < b1 THEN v1 ELSE IF q < b2 THEN v2 ELSE v3)]

SizeTables ==
  { SizeTable(b1, b1 + w, v1, v2, v3) :
      b1 \in MinQuality..(MaxQuality + 1), w \in 0..MaxMiddleWidth,
      v1 \in 1..MaxSizeMB, v2 \in 1..MaxSizeMB, v3 \in 1..MaxSizeMB }

Monotone(t) == \A q \in QualityRange : q < MaxQuality => t[q] <= t[q + 1]

(***************************************************************************)
(* File names.                                                             *)
(***************************************************************************)
TempSuffix == <<".", "t", "e", "m", "p">>
OptimizedSuffix == <<"_", "o", "p", "t", "i", "m", "i", "z", "e", "d", ".", "j", "p", "g">>

TempPath(out) == out \o TempSuffix

EndsWith(s, suf) ==
  /\ Len(s) >= Len(suf)
  /\ SubSeq(s, Len(s) - Len(suf) + 1, Len(s)) = suf

IsTemp(p) == EndsWith(p, TempSuffix)

\* os.path.splitext(p)[0] for a base name: cut at the last dot, unless the
\* name has no dot or only leading dots
SplitextRoot(p) ==
  LET dots == { i \in 1..Len(p) : p[i] = "." /\ \E j \in 1..(i - 1) : p[j] # "." }
  IN  IF dots = {} THEN p
      ELSE SubSeq(p, 1, (CHOOSE i \in dots : \A j \in dots : j <= i) - 1)

(***************************************************************************)
(* optimize_image_for_ppt, one action per step of its body.  Every         *)
(* external call inside the try block (Image.open, img.save,               *)
(* os.path.getsize, os.remove) either succeeds or raises; a raise is       *)
(* caught by the handler of line 144, which returns None.                  *)
(***************************************************************************)
DefaultOutputPath(path) == SplitextRoot(path) \o OptimizedSuffix

\* line 67, os.path.getsize(image_path): the size on disk of an input file,
\* fixed per file (longer names stand for larger files)
InputSize(path) == Len(path) * MB

\* lines 65-107: decode, record the original size, set up the search
OpenImage(Tables) ==
  /\ UNCHANGED bvars
  /\ pc = "open"
  /\ \E t \in Tables : sizes' = t
  /\ original_size' = InputSize(image_path)
  /\ target_size' = target_size_mb
  /\ low_quality' = MinQuality
  /\ high_quality' = MaxQuality
  /\ best_quality' = DefaultQuality
  /\ attempt' = 0
  /\ pc' = "loop"
  /\ UNCHANGED <<image_path, output_path, target_size_mb, mid_quality,
                 file_size, result, raised, disk, trials, final_encodes>>

\* lines 144-146: the state after an external call raised
Except(call) ==
  /\ raised' = call
  /\ result' = None
  /\ pc' = "done"

\* line 65 or 67 raises
OpenError ==
  /\ UNCHANGED bvars
  /\ pc = "open"
  /\ Except("open")
  /\ UNCHANGED <<image_path, output_path, target_size_mb, target_size, sizes,
                 original_size, low_quality, high_quality, best_quality,
                 mid_quality, file_size, attempt, disk, trials, final_encodes>>

MidQuality(low, high) == (low + high) \div 2

\* lines 109-110 and 96-97: next iteration, trial encode to the temp file
TrialSave ==
  /\ UNCHANGED bvars
  /\ pc = "loop"
  /\ attempt < MaxAttempts
  /\ mid_quality' = MidQuality(low_quality, high_quality)
  /\ trials' = Append(trials, mid_quality')
  /\ disk' = disk \cup {TempPath(output_path)}
  /\ pc' = "saved"
  /\ UNCHANGED <<image_path, output_path, target_size_mb, target_size, sizes,
                 original_size, low_quality, high_quality, best_quality,
                 file_size, attempt, result, raised, final_encodes>>

\* line 97 raises; the partly written temp file may or may not remain
TrialSaveError ==
  /\ UNCHANGED bvars
  /\ pc = "loop"
  /\ attempt < MaxAttempts
  /\ mid_quality' = MidQuality(low_quality, high_quality)
  /\ trials' = Append(trials, mid_quality')
  /\ \E left \in BOOLEAN :
        disk' = IF left THEN disk \cup {TempPath(output_path)} ELSE disk
  /\ Except("save_temp")
  /\ UNCHANGED <<image_path, output_path, target_size_mb, target_size, sizes,
                 original_size, low_quality, high_quality, best_quality,
                 file_size, attempt, final_encodes>>

\* line 98: measure the temp file
TrialMeasure ==
  /\ UNCHANGED bvars
  /\ pc = "saved"
  /\ file_size' = sizes[mid_quality]
  /\ pc' = "measured"
  /\ UNCHANGED <<image_path, output_path, target_size_mb, target_size, sizes,
                 original_size, low_quality, high_quality, best_quality,
                 mid_quality, attempt, result, raised, disk, trials,
                 final_encodes>>

\* line 98 raises
TrialMeasureError ==
  /\ UNCHANGED bvars
  /\ pc = "saved"
  /\ Except("getsize_temp")
  /\ UNCHANGED <<image_path, output_path, target_size_mb, target_size, sizes,
                 original_size, low_quality, high_quality, best_quality,
                 mid_quality, file_size, attempt, disk, trials, final_encodes>>

\* a search that records every trial as the best one
NextBestAlways(best, mid, size, budget) == mid

\* a search that does not step past a quality found within budget
NextLowNoStep(low, mid, size, budget) == IF size <= budget THEN mid ELSE low

\* lines 113-117: the decision of one iteration
NextBest(best, mid, size, budget) == IF size <= budget THEN mid ELSE best
NextLow(low, mid, size, budget) == IF size <= budget THEN mid + 1 ELSE low
NextHigh(high, mid, size, budget) == IF size <= budget THEN high ELSE mid - 1

\* a loop without the break of lines 119-120
LoopEndsCapOnly(low, high, done) == done >= MaxAttempts

\* lines 109, 119-120: the loop ends on low > high or after 10 iterations
LoopEnds(low, high, done) == low > high \/ done >= MaxAttempts

\* lines 99-100 and 113-120: remove the temp file, narrow the interval
TrialRemove ==
  /\ UNCHANGED bvars
  /\ pc = "measured"
  /\ disk' = disk \ {TempPath(output_path)}
  /\ best_quality' = NextBest(best_quality, mid_quality, file_size, target_size)
  /\ low_quality' = NextLow(low_quality, mid_quality, file_size, target_size)
  /\ high_quality' = NextHigh(high_quality, mid_quality, file_size, target_size)
  /\ attempt' = attempt + 1
  /\ pc' = IF LoopEnds(low_quality', high_quality', attempt') THEN "final" ELSE "loop"
  /\ UNCHANGED <<image_path, output_path, target_size_mb, target_size, sizes,
                 original_size, mid_quality, file_size, result, raised, trials,
                 final_encodes>>

\* line 99 raises
TrialRemoveError ==
  /\ UNCHANGED bvars
  /\ pc = "measured"
  /\ Except("remove_temp")
  /\ UNCHANGED <<image_path, output_path, target_size_mb, target_size, sizes,
                 original_size, low_quality, high_quality, best_quality,
                 mid_quality, file_size, attempt, disk, trials, final_encodes>>

\* a final encode at the quality of the last trial
FinalQualityLastTrial(best, mid) == mid

\* line 123: the quality of the persisted encode
FinalQuality(best, mid) == best

\* lines 123-142: final encode and the returned record
FinalEncode ==
  /\ UNCHANGED bvars
  /\ pc = "final"
  /\ LET q == FinalQuality(best_quality, mid_quality) IN
       result' = [ok |-> TRUE,
                  original_size |-> original_size,
                  compressed_size |-> sizes[q],
                  input_file |-> image_path,
                  output_file |-> output_path,
                  quality |-> q]
  /\ disk' = disk \cup {output_path}
  /\ final_encodes' = final_encodes + 1
  /\ pc' = "done"
  /\ UNCHANGED <<image_path, output_path, target_size_mb, target_size, sizes,
                 original_size, low_quality, high_quality, best_quality,
                 mid_quality, file_size, attempt, raised, trials>>

\* line 123 or 126 raises; the output file may or may not remain
FinalEncodeError ==
  /\ UNCHANGED bvars
  /\ pc = "final"
  /\ \E left \in BOOLEAN :
        disk' = IF left THEN disk \cup {output_path} ELSE disk
  /\ final_encodes' = final_encodes + 1
  /\ Except("save_final")
  /\ UNCHANGED <<image_path, output_path, target_size_mb, target_size, sizes,
                 original_size, low_quality, high_quality, best_quality,
                 mid_quality, file_size, attempt, trials>>

SearchStep(Tables) ==
  \/ OpenImage(Tables)
  \/ OpenError
  \/ TrialSave
  \/ TrialSaveError
  \/ TrialMeasure
  \/ TrialMeasureError
  \/ TrialRemove
  \/ TrialRemoveError
  \/ FinalEncode
  \/ FinalEncodeError

(***************************************************************************)
(* A direct call optimize_image_for_ppt(image_path, None, target_size_mb). *)
(***************************************************************************)
SamplePath == <<"a", "1", ".", "p", "n", "g">>

BatchIdle ==
  /\ bpc = "idle"
  /\ glob_files = <<>>
  /\ image_files = <<>>
  /\ target_ppt_size_mb = 0
  /\ target_size_per_image = 0
  /\ idx = 0
  /\ results = <<>>
  /\ total_original_size = 0
  /\ total_compressed_size = 0
  /\ attempted = <<>>
  /\ returned = <<>>
  /\ slides = <<>>

SearchIdle(p) ==
  /\ pc = p
  /\ target_size = 0
  /\ sizes = [q \in EncoderQualities |-> 0]
  /\ original_size = 0
  /\ low_quality = 0
  /\ high_quality = 0
  /\ best_quality = 0
  /\ mid_quality = 0
  /\ file_size = 0
  /\ attempt = 0
  /\ result = None
  /\ raised = "none"
  /\ trials = <<>>
  /\ final_encodes = 0

InitSearch ==
  /\ SearchIdle("open")
  /\ image_path = SamplePath
  /\ output_path = DefaultOutputPath(image_path)
  /\ target_size_mb \in { k * MB : k \in (-1)..MaxBudgetMB }
  /\ disk = {}
  /\ BatchIdle

NextSearch == SearchStep(SizeTables)

SpecSearch == InitSearch /\ [][NextSearch]_vars

FairSpecSearch == SpecSearch /\ WF_vars(NextSearch)

(***************************************************************************)
(* batch_compress_for_ppt: the sort key and the sort.                      *)
(***************************************************************************)
DigitValue ==
  [c \in {"0", "1", "2", "3", "4", "5", "6", "7", "8", "9"} |->
     CASE c = "0" -> 0 [] c = "1" -> 1 [] c = "2" -> 2 [] c = "3" -> 3
       [] c = "4" -> 4 [] c = "5" -> 5 [] c = "6" -> 6 [] c = "7" -> 7
       [] c = "8" -> 8 [] c = "9" -> 9]

IsDigit(c) == c \in DOMAIN DigitValue

\* os.path.basename: what follows the last "/"
Basename(p) ==
  LET slashes == { i \in 1..Len(p) : p[i] = "/" }
  IN  IF slashes = {} THEN p
      ELSE SubSeq(p, (CHOOSE i \in slashes : \A j \in slashes : j <= i) + 1, Len(p))

RECURSIVE ToInt(_)
\* int() of a run of decimal digits
ToInt(ds) ==
  IF ds = <<>> THEN 0
  ELSE 10 * ToInt(SubSeq(ds, 1, Len(ds) - 1)) + DigitValue[ds[Len(ds)]]

\* re.findall(r'\d+', name)[-1]: the last maximal run of digits, <<>> if none
LastDigitRun(name) ==
  LET ends == { i \in 1..Len(name) : IsDigit(name[i]) }
  IN  IF ends = {} THEN <<>>
      ELSE LET e == CHOOSE i \in ends : \A j \in ends : j <= i
               starts == { i \in 1..e : \A j \in i..e : IsDigit(name[j]) }
               b == CHOOSE i \in starts : \A j \in starts : i <= j
           IN  SubSeq(name, b, e)

\* re.findall(r'\d+', name)[0]: the first maximal run of digits
FirstDigitRun(name) ==
  LET begins == { i \in 1..Len(name) : IsDigit(name[i]) }
  IN  IF begins = {} THEN <<>>
      ELSE LET b == CHOOSE i \in begins : \A j \in begins : i <= j
               stops == { i \in b..Len(name) : \A j \in b..i : IsDigit(name[j]) }
               e == CHOOSE i \in stops : \A j \in stops : j <= i
           IN  SubSeq(name, b, e)

\* a sort key taken from the first run of digits
extract_first_number(filename) ==
  LET numbers == FirstDigitRun(Basename(filename))
  IN  IF numbers # <<>> THEN ToInt(numbers) ELSE 0

\* lines 159-161 (and create_ppt.py lines 47-50)
extract_number(filename) ==
  LET numbers == LastDigitRun(Basename(filename))
  IN  IF numbers # <<>> THEN ToInt(numbers) ELSE 0

\* position of x in a list sorted by key: after every element whose key is
\* not greater (list.sort is stable)
InsertByKey(x, s) ==
  LET n == Cardinality({ i \in 1..Len(s) : extract_number(s[i]) <= extract_number(x) })
  IN  SubSeq(s, 1, n) \o <<x>> \o SubSeq(s, n + 1, Len(s))

RECURSIVE SortByKey(_)
\* line 163: image_files.sort(key=extract_number)
SortByKey(s) ==
  IF s = <<>> THEN <<>>
  ELSE InsertByKey(s[Len(s)], SortByKey(SubSeq(s, 1, Len(s) - 1)))

(***************************************************************************)
(* The files the pattern can match, and the lists glob can return.         *)
(***************************************************************************)
PoolNames ==
  { <<"a", ".", "p", "n", "g">>,
    <<"a", ".", "j", "p", "g">>,
    <<"a", "2", ".", "p", "n", "g">>,
    <<"a", "1", "0", ".", "p", "n", "g">>,
    <<"2", "a", "1", ".", "p", "n", "g">> }

RECURSIVE DistinctSeqs(_, _)
DistinctSeqs(S, n) ==
  IF n = 0 THEN {<<>>}
  ELSE LET shorter == DistinctSeqs(S, n - 1)
       IN  shorter \cup
           { Append(q, x) : q \in { r \in shorter : Len(r) = n - 1 }, x \in S }

GlobResults(S, n) ==
  { q \in DistinctSeqs(S, n) : \A i, j \in 1..Len(q) : i # j => q[i] # q[j] }

CompressedDir == <<"c", "o", "m", "p", "r", "e", "s", "s", "e", "d", "_", "f", "o", "r", "_", "p", "p", "t">>

InCompressedDir(name) == CompressedDir \o <<"/">> \o name

\* the encoders of the images of a batch: every quality above the budget's
\* reach, or every quality at one megabyte
BatchTables ==
  { SizeTable(b, b, 1, 1, MaxSizeMB) : b \in {MinQuality, MaxQuality + 1} }

\* line 172-173, times the 1024 * 1024 of line 103
PerImageBudget(total_mb, n) == ((total_mb - ReservedMB) * MB) \div n

\* lines 155-186: sort, stop on an empty match, compute the budget, mkdir
SortAndPlan ==
  /\ bpc = "glob"
  /\ image_files' = SortByKey(glob_files)
  /\ IF image_files' = <<>>
     THEN /\ bpc' = "returned_none"
          /\ UNCHANGED <<target_size_per_image, idx, disk>>
     ELSE /\ target_size_per_image' =
               PerImageBudget(target_ppt_size_mb, Len(image_files'))
          /\ disk' = disk \cup {CompressedDir}
          /\ idx' = 1
          /\ bpc' = "loop"
  /\ UNCHANGED <<glob_files, target_ppt_size_mb, results, total_original_size,
                 total_compressed_size, attempted, returned, slides>>
  /\ UNCHANGED <<pc, image_path, output_path, target_size_mb, target_size,
                 sizes, original_size, low_quality, high_quality, best_quality,
                 mid_quality, file_size, attempt, result, raised, trials,
                 final_encodes>>

\* lines 188-193: the call of optimize_image_for_ppt for the next file
BeginItem ==
  /\ bpc = "loop"
  /\ idx <= Len(image_files)
  /\ image_path' = image_files[idx]
  /\ output_path' =
       InCompressedDir(SplitextRoot(Basename(image_files[idx])) \o OptimizedSuffix)
  /\ target_size_mb' = target_size_per_image
  /\ attempted' = Append(attempted, image_files[idx])
  /\ pc' = "open"
  /\ bpc' = "item"
  /\ UNCHANGED <<glob_files, image_files, target_ppt_size_mb,
                 target_size_per_image, idx, results, total_original_size,
                 total_compressed_size, returned, slides>>
  /\ UNCHANGED <<target_size, sizes, original_size, low_quality, high_quality,
                 best_quality, mid_quality, file_size, attempt, result, raised,
                 disk, trials, final_encodes>>

\* the locals of a finished call of optimize_image_for_ppt are gone
ReturnToCaller ==
  /\ pc' = "idle"
  /\ target_size' = 0
  /\ sizes' = [q \in EncoderQualities |-> 0]
  /\ original_size' = 0
  /\ low_quality' = 0
  /\ high_quality' = 0
  /\ best_quality' = 0
  /\ mid_quality' = 0
  /\ file_size' = 0
  /\ attempt' = 0
  /\ result' = None
  /\ raised' = "none"
  /\ trials' = <<>>
  /\ final_encodes' = 0

\* a loop that appends whatever the call returned
CollectAlways(rs, r) == Append(rs, r)

\* lines 194-195: "if result: results.append(result)"
Collect(rs, r) == IF r.ok THEN Append(rs, r) ELSE rs

\* lines 194-197: collect the result
EndItem ==
  /\ bpc = "item"
  /\ pc = "done"
  /\ results' = Collect(results, result)
  /\ IF result.ok
     THEN /\ total_original_size' = total_original_size + result.original_size
          /\ total_compressed_size' = total_compressed_size + result.compressed_size
     ELSE UNCHANGED <<total_original_size, total_compressed_size>>
  /\ returned' = Append(returned, result)
  /\ idx' = idx + 1
  /\ bpc' = "loop"
  /\ ReturnToCaller
  /\ UNCHANGED <<image_path, output_path, target_size_mb, disk>>
  /\ UNCHANGED <<glob_files, image_files, target_ppt_size_mb,
                 target_size_per_image, attempted, slides>>

\* line 205 divides by total_original_size
SummaryRaises(total) == total = 0

\* lines 199-219: the statistics and the returned config
Summary ==
  /\ bpc = "loop"
  /\ idx > Len(image_files)
  /\ bpc' = IF SummaryRaises(total_original_size) THEN "raised" ELSE "returned"
  /\ UNCHANGED <<glob_files, image_files, target_ppt_size_mb,
                 target_size_per_image, idx, results, total_original_size,
                 total_compressed_size, attempted, returned, slides>>
  /\ UNCHANGED svars

(***************************************************************************)
(* create_ppt.py, create_ppt_from_compressed_images, run after the batch.  *)
(***************************************************************************)
\* line 44: glob.glob(os.path.join(compressed_dir, "*_optimized.jpg"))
OptimizedFiles(d) ==
  { p \in d : /\ EndsWith(p, OptimizedSuffix)
              /\ Len(p) > Len(CompressedDir)
              /\ SubSeq(p, 1, Len(CompressedDir) + 1) = CompressedDir \o <<"/">> }

\* lines 38-106: one slide per file, in the sorted order
CreatePpt ==
  /\ bpc \in {"returned", "raised", "returned_none"}
  /\ IF CompressedDir \notin disk
     THEN /\ slides' = <<>>
          /\ bpc' = "deck_none"
     ELSE \E jpg_files \in GlobResults(OptimizedFiles(disk), Cardinality(OptimizedFiles(disk))) :
            /\ Len(jpg_files) = Cardinality(OptimizedFiles(disk))
            /\ slides' = SortByKey(jpg_files)
            /\ bpc' = IF jpg_files = <<>> THEN "deck_none" ELSE "deck"
  /\ UNCHANGED <<glob_files, image_files, target_ppt_size_mb,
                 target_size_per_image, idx, results, total_original_size,
                 total_compressed_size, attempted, returned>>
  /\ UNCHANGED svars

InitBatch ==
  /\ bpc = "glob"
  /\ glob_files \in GlobResults(PoolNames, MaxFiles)
  /\ target_ppt_size_mb \in 0..MaxTargetMB
  /\ image_files = <<>>
  /\ target_size_per_image = 0
  /\ idx = 0
  /\ results = <<>>
  /\ total_original_size = 0
  /\ total_compressed_size = 0
  /\ attempted = <<>>
  /\ returned = <<>>
  /\ slides = <<>>
  /\ SearchIdle("idle")
  /\ image_path = <<>>
  /\ output_path = <<>>
  /\ target_size_mb = 0
  /\ disk = {}

NextBatch ==
  \/ SortAndPlan
  \/ BeginItem
  \/ SearchStep(BatchTables)
  \/ EndItem
  \/ Summary
  \/ CreatePpt

SpecBatch == InitBatch /\ [][NextBatch]_vars

(***************************************************************************)
(* Properties.                                                             *)
(***************************************************************************)
SetMax(S) == CHOOSE x \in S : \A y \in S : y <= x

\* the call ran to line 135 without any external call raising
ReturnedNormally == pc = "done" /\ raised = "none"

FeasibleQualities == { q \in QualityRange : sizes[q] <= target_size }

\* the trials whose encoded size was within the budget
FittingTrials == { i \in 1..Len(trials) : sizes[trials[i]] <= target_size }

\* C1: with encoded sizes non-decreasing in quality over 30..95 and at least
\* one quality within the budget, the quality finally used is the greatest
\* quality in 30..95 whose encoded size is within the budget (95 when the
\* size at 95 fits).
C1_GreatestFeasibleQuality ==
  (/\ pc \in {"final", "done"}
   /\ raised \in {"none", "save_final"}
   /\ Monotone(sizes)
   /\ FeasibleQualities # {})
  => /\ best_quality = SetMax(FeasibleQualities)
     /\ (sizes[95] <= target_size => best_quality = 95)
     /\ (ReturnedNormally => result.quality = SetMax(FeasibleQualities))

C1_Witness ==
  /\ ReturnedNormally
  /\ Monotone(sizes)
  /\ FeasibleQualities # {}
  /\ sizes[95] > target_size
  /\ result.quality = 61
  /\ sizes[61] <= target_size

\* C2 as stated: whenever some quality in 30..95 fits the budget, monotone
\* sizes or not, the search returns without an error a quality whose encoded
\* size is within the budget.
C2_ReturnedQualityFeasible ==
  (ReturnedNormally /\ FeasibleQualities # {})
  => /\ result.ok
     /\ sizes[result.quality] <= target_size

\* C2 amended: monotone sizes or not, the search returns without an error;
\* when at least one trial encode was within the budget, the returned quality
\* is the quality of the last such trial and its encoded size is within the
\* budget; when no trial was within the budget the returned quality is 85.
C2_FeasibleWhenATrialFits ==
  ReturnedNormally
  => /\ result.ok
     /\ (FittingTrials # {} =>
           /\ result.quality = trials[SetMax(FittingTrials)]
           /\ sizes[result.quality] <= target_size)
     /\ (FittingTrials = {} => result.quality = 85)

C2_Witness ==
  /\ ReturnedNormally
  /\ ~Monotone(sizes)
  /\ FittingTrials # {}
  /\ sizes[result.quality] <= target_size
  /\ result.quality < SetMax(FeasibleQualities)

\* C3: when the encoded size at quality 30 exceeds the budget (every budget
\* <= 0 included), the final encode uses the last best_quality recorded by
\* the search, 85 when no trial was within the budget; the output file is
\* written and a result is returned.
C3_OverBudgetStillProduced ==
  (ReturnedNormally /\ sizes[30] > target_size)
  => /\ result.ok
     /\ output_path \in disk
     /\ final_encodes = 1
     /\ result.quality =
          IF FittingTrials = {} THEN 85 ELSE trials[SetMax(FittingTrials)]
     /\ result.compressed_size = sizes[result.quality]

C3_Witness ==
  /\ ReturnedNormally
  /\ target_size <= 0
  /\ sizes[30] > target_size
  /\ FittingTrials = {}
  /\ result.quality = 85
  /\ result.compressed_size > target_size
  /\ output_path \in disk

\* C4: batch_compress_for_ppt never lets an exception escape, also when
\* every item fails.
C4_NoExceptionEscapes == bpc # "raised"

TempFiles == { p \in disk : IsTemp(p) }

\* C5: every matched path is attempted exactly once, in sorted order, a
\* failed item does not stop the batch and contributes nothing; after the
\* loop results holds exactly the successful items in processing order and
\* the totals are the sums of their sizes.
RECURSIVE SumField(_, _)
SumField(rs, f) ==
  IF rs = <<>> THEN 0 ELSE rs[1][f] + SumField(Tail(rs), f)

Succeeded(r) == r.ok

LoopFinished ==
  \/ bpc = "loop" /\ idx > Len(image_files)
  \/ bpc \in {"returned", "raised"}

C5_FailuresSkipped ==
  /\ attempted = SubSeq(image_files, 1, Len(attempted))
  /\ Len(returned) <= Len(attempted)
  /\ Len(attempted) <= Len(returned) + 1
  /\ (bpc = "loop" => Len(returned) = Len(attempted))
  /\ results = SelectSeq(returned, Succeeded)
  /\ \A i \in 1..Len(results) : results[i].input_file \in
         { attempted[j] : j \in 1..Len(attempted) }
  /\ total_original_size = SumField(results, "original_size")
  /\ total_compressed_size = SumField(results, "compressed_size")
  /\ (LoopFinished =>
        /\ attempted = image_files
        /\ Len(returned) = Len(image_files)
        /\ \A i \in 1..Len(returned) :
             returned[i].ok => returned[i].input_file = image_files[i])

C5_Witness ==
  /\ LoopFinished
  /\ Len(image_files) = 2
  /\ ~returned[1].ok
  /\ returned[2].ok
  /\ results = <<returned[2]>>
  /\ total_original_size = returned[2].original_size

\* C6: the temp file of a trial encode is deleted before the next trial or
\* the final encode starts, at most one temp file exists at any time, and
\* none exists when optimize_image_for_ppt returns, also when the trial
\* encode or the size measurement fails.
C6_TempFileCleanedUp ==
  /\ Cardinality(TempFiles) <= 1
  /\ (pc \in {"loop", "final", "done"} => TempPath(output_path) \notin disk)

\* C7: the per-item budget handed to the encoder is non-negative for every
\* requested total size and every non-empty set of matched files.
C7_BudgetNonNegative ==
  bpc \in {"loop", "item"} => target_size_per_image >= 0

\* C8: the matched files are processed in ascending order of the integer
\* value of the last run of decimal digits of the base name, 0 without a
\* digit; files with equal keys keep their enumeration order.
RECURSIVE DropTrailingNonDigits(_)
DropTrailingNonDigits(name) ==
  IF name = <<>> \/ IsDigit(name[Len(name)]) THEN name
  ELSE DropTrailingNonDigits(SubSeq(name, 1, Len(name) - 1))

RECURSIVE TrailingValue(_, _)
TrailingValue(name, unit) ==
  IF name = <<>> \/ ~IsDigit(name[Len(name)]) THEN 0
  ELSE DigitValue[name[Len(name)]] * unit
         + TrailingValue(SubSeq(name, 1, Len(name) - 1), unit * 10)

LastRunKey(name) == TrailingValue(DropTrailingNonDigits(name), 1)

PositionIn(q, x) == CHOOSE i \in 1..Len(q) : q[i] = x

C8_ProcessedInKeyOrder ==
  bpc # "glob"
  => /\ Len(image_files) = Len(glob_files)
     /\ \A i \in 1..Len(glob_files) : \E j \in 1..Len(image_files) :
          image_files[j] = glob_files[i]
     /\ \A i, j \in 1..Len(image_files) :
          i < j =>
            /\ LastRunKey(image_files[i]) <= LastRunKey(image_files[j])
            /\ (LastRunKey(image_files[i]) = LastRunKey(image_files[j]) =>
                  PositionIn(glob_files, image_files[i])
                    < PositionIn(glob_files, image_files[j]))
     /\ attempted = SubSeq(image_files, 1, Len(attempted))

C8_Witness ==
  /\ glob_files = <<<<"a", "1", "0", ".", "p", "n", "g">>, <<"a", "2", ".", "p", "n", "g">>>>
  /\ attempted = <<<<"a", "2", ".", "p", "n", "g">>, <<"a", "1", "0", ".", "p", "n", "g">>>>

\* C9: for every budget and every table of sizes the search makes at most
\* 10 trial encodes, each at a quality in 30..95, then exactly one final
\* encode at best_quality, started only once low_quality > high_quality or
\* 10 iterations are done; the call terminates.
C9_Bounded ==
  /\ Len(trials) <= 10
  /\ \A i \in 1..Len(trials) : trials[i] >= 30 /\ trials[i] <= 95
  /\ final_encodes <= 1
  /\ (pc = "final" \/ final_encodes = 1 =>
        low_quality > high_quality \/ attempt = 10)
  /\ (final_encodes = 1 => Len(trials) = attempt)
  /\ (ReturnedNormally =>
        /\ final_encodes = 1
        /\ result.quality = best_quality)

C9_BoundedSearchTerminates == []C9_Bounded /\ <>(pc = "done")

C9_Witness ==
  /\ ReturnedNormally
  /\ Len(trials) = 7
  /\ final_encodes = 1
  /\ low_quality > high_quality

\* C10: for a run in which every matched file was processed successfully,
\* the deck has exactly one slide per result, in the order of the results:
\* the sorted *_optimized.jpg files are the output files of the results.
C10_OneSlidePerResult ==
  (bpc \in {"deck", "deck_none"} /\ Len(results) = Len(image_files))
  => slides = [i \in 1..Len(results) |-> results[i].output_file]

====
